---- MODULE Spec2Model ----
(***************************************************************************)
(* Model of email_models.py: EmailAddress (normalisation, validation,      *)
(* masking), Email (construction, prepare), EmailService.send_email and    *)
(* LoggingEmailService.send_email.                                         *)
(*                                                                         *)
(* Python strings are sequences of one-character strings, so that strip,   *)
(* lower, split, endswith and slicing are computed as the code computes    *)
(* them.  Email objects and list objects live on heaps (sequences indexed  *)
(* by object identity), so that aliasing between a message and its copies  *)
(* is something the model can express.                                     *)
(***************************************************************************)
EXTENDS Integers, Sequences, FiniteSets

VARIABLES
    raw,      \* EmailAddress: the constructor's argument
    addr,     \* EmailAddress: outcome of the construction (None before it)
    mask,     \* EmailAddress: outcome of reading .masked (None before it)
    emails,   \* heap of Email objects; an object's identity is its index
    lists,    \* heap of list objects (the recipients lists)
    result,   \* the list of Email references returned by the last send_email
    log,      \* the lines of send.log
    clock,    \* the value the next datetime.now() returns
    last,     \* the last operation performed and how it ended
    muts      \* number of caller mutations applied to outcome copies

vars == <<raw, addr, mask, emails, lists, result, log, clock, last, muts>>

addrVars == <<raw, addr, mask>>
mailVars == <<emails, lists, result, log, clock, last, muts>>

----------------------------------------------------------------------------
(* Bounds of the model *)

\* longest middle part of an enumerated raw address
MaxCoreLen == 3
\* longest recipients list given to the Email constructor
MaxRecipients == 2
\* capacity of the heap of Email objects
MaxEmails == 3
\* last tick datetime.now() may return
MaxClock == 4
\* mutations a caller applies to outcome copies
MaxMutations == 1

----------------------------------------------------------------------------
(* Optional values and strings *)

None == [isNone |-> TRUE]
Some(v) == [isNone |-> FALSE, val |-> v]

Whitespace == {" ", "\t"}

UpperChars == <<"A", "B", "C", "E", "M", "O", "Y">>
LowerChars == <<"a", "b", "c", "e", "m", "o", "y">>

\* str.lower() on one character
LowerChar(c) ==
    IF \E i \in 1..Len(UpperChars) : UpperChars[i] = c
    THEN LowerChars[CHOOSE i \in 1..Len(UpperChars) : UpperChars[i] = c]
    ELSE c

\* str.lower()
Lower(s) == [i \in 1..Len(s) |-> LowerChar(s[i])]

SetMin(S) == CHOOSE m \in S : \A n \in S : m <= n
SetMax(S) == CHOOSE m \in S : \A n \in S : m >= n

\* a plausible slip: only one whitespace character removed from each end
StripOnce(s) ==
    LET a == IF Len(s) > 0 /\ s[1] \in Whitespace THEN 2 ELSE 1
        b == IF Len(s) >= a /\ s[Len(s)] \in Whitespace THEN Len(s) - 1 ELSE Len(s)
    IN SubSeq(s, a, b)

\* str.strip(): leading and trailing whitespace removed
Strip(s) ==
    LET keep == {i \in 1..Len(s) : s[i] \notin Whitespace}
    IN IF keep = {} THEN <<>> ELSE SubSeq(s, SetMin(keep), SetMax(keep))

\* str.endswith(suffix)
EndsWith(s, suffix) ==
    /\ Len(s) >= Len(suffix)
    /\ SubSeq(s, Len(s) - Len(suffix) + 1, Len(s)) = suffix

\* sep in s, for a one-character sep
Contains(s, sep) == \E i \in 1..Len(s) : s[i] = sep

RECURSIVE SplitOn(_, _)
\* str.split(sep) for a one-character sep: the pieces between the separators
SplitOn(s, sep) ==
    IF ~Contains(s, sep) THEN <<s>>
    ELSE LET p == SetMin({i \in 1..Len(s) : s[i] = sep})
         IN <<SubSeq(s, 1, p - 1)>> \o SplitOn(SubSeq(s, p + 1, Len(s)), sep)

RECURSIVE SplitWords(_)
\* str.split() without argument: the maximal runs of non-whitespace
SplitWords(s) ==
    LET t == Strip(s)
    IN IF t = <<>> THEN <<>>
       ELSE LET ws == {i \in 1..Len(t) : t[i] \in Whitespace}
            IN IF ws = {} THEN <<t>>
               ELSE <<SubSeq(t, 1, SetMin(ws) - 1)>>
                        \o SplitWords(SubSeq(t, SetMin(ws), Len(t)))

RECURSIVE JoinWith(_, _)
\* sep.join(parts)
JoinWith(sep, parts) ==
    IF parts = <<>> THEN <<>>
    ELSE IF Len(parts) = 1 THEN parts[1]
    ELSE parts[1] \o sep \o JoinWith(sep, Tail(parts))

\* s[:n]
Prefix(s, n) == SubSeq(s, 1, IF Len(s) < n THEN Len(s) ELSE n)

RECURSIVE Rep(_, _)
\* c * n
Rep(c, n) == IF n = 0 THEN <<>> ELSE <<c>> \o Rep(c, n - 1)

RECURSIVE SeqsUpTo(_, _)
\* all sequences over S of length at most n
SeqsUpTo(S, n) ==
    IF n = 0 THEN {<<>>}
    ELSE LET shorter == SeqsUpTo(S, n - 1)
         IN shorter \cup {Append(q, c) : q \in shorter, c \in S}

----------------------------------------------------------------------------
(* EmailAddress *)

DotCom == <<".", "c", "o", "m">>
DotRu  == <<".", "r", "u">>
DotNet == <<".", "n", "e", "t">>

\* the tuple of suffixes in _validate
AllowedTlds == {DotCom, DotRu, DotNet}

\* EmailAddress._normalize
Normalize(address) == Lower(Strip(address))

\* EmailAddress._validate: TRUE when it returns, FALSE when it raises ValueError
Validate(address) ==
    /\ Contains(address, "@")
    /\ \E tld \in AllowedTlds : EndsWith(address, tld)

\* EmailAddress.__init__: the object, or the ValueError
EmailAddress(address) ==
    LET a == Normalize(address)
    IN IF Validate(a) THEN [ok |-> TRUE, value |-> a]
       ELSE [ok |-> FALSE, value |-> <<>>]

\* EmailAddress.masked: the two-name unpacking of split("@") raises ValueError
\* unless there are exactly two pieces
Masked(address) ==
    LET parts == SplitOn(address, "@")
    IN IF Len(parts) # 2 THEN [raised |-> TRUE, text |-> <<>>]
       ELSE [raised |-> FALSE,
             text |-> Prefix(parts[1], 2) \o <<"*", "*", "*", "@">> \o parts[2]]

----------------------------------------------------------------------------
(* Email *)

\* the default of add_short_body's limit parameter
ShortBodyLimit == 20

\* Status.<member>.value
StatusValue(status) ==
    CASE status = "DRAFT"   -> <<"d", "r", "a", "f", "t">>
      [] status = "READY"   -> <<"r", "e", "a", "d", "y">>
      [] status = "SENT"    -> <<"s", "e", "n", "t">>
      [] status = "FAILED"  -> <<"f", "a", "i", "l", "e", "d">>
      [] status = "INVALID" -> <<"i", "n", "v", "a", "l", "i", "d">>

\* Email.__post_init__, isinstance branch: one EmailAddress becomes a list
PostInitAddress(recipient) == <<recipient>>

\* Email.__post_init__, else branch: list(iterable) is a new list object
PostInitList(recipients) == recipients

\* the dataclass-generated __init__ with the defaults of date, short_body
\* and status; listRef is the identity of the list __post_init__ builds
NewEmail(subject, body, sender, listRef) ==
    [subject |-> subject, body |-> body, sender |-> sender,
     recipients |-> listRef, date |-> None, short_body |-> None,
     status |-> "DRAFT"]

\* Email.add_short_body: the value assigned to short_body
AddShortBody(body, limit) ==
    LET clean == JoinWith(<<" ">>, SplitWords(body))
    IN Prefix(clean, limit)
         \o (IF Len(clean) > limit THEN <<".", ".", ".">> ELSE <<>>)

\* a plausible slip: the body is not tested
ValidateFieldsNoBody(email, recipients) ==
    IF email.subject = <<>> THEN "INVALID"
    ELSE IF email.sender = None \/ recipients = <<>> THEN "INVALID"
    ELSE "READY"

\* Email._validate_fields: the status it assigns.  An EmailAddress defines
\* neither __bool__ nor __len__, so "not self.sender" holds of None only.
ValidateFields(email, recipients) ==
    IF email.subject = <<>> \/ email.body = <<>> THEN "INVALID"
    ELSE IF email.sender = None \/ recipients = <<>> THEN "INVALID"
    ELSE "READY"

\* Email.prepare: the object after the call; recipients is the content of
\* the list its recipients field refers to
PrepareEmail(email, recipients) ==
    LET stripped == [email EXCEPT !.subject = Strip(@), !.body = Strip(@)]
        shortened == [stripped EXCEPT
                        !.short_body = Some(AddShortBody(stripped.body, ShortBodyLimit))]
    IN [shortened EXCEPT !.status = ValidateFields(shortened, recipients)]

----------------------------------------------------------------------------
(* EmailService and LoggingEmailService *)

\* a plausible slip: only READY is given its own outcome, inverted
ResolveStatusInverted(status) == IF status = "READY" THEN "FAILED" ELSE "SENT"

\* a plausible slip: the copy is left with the status deepcopy gave it
ResolveStatusKeep(status) == status

\* the if/else of send_email on the source's status
ResolveStatus(status) == IF status = "READY" THEN "SENT" ELSE "FAILED"

\* a plausible slip: new_email = email, the copy is the source itself
AliasCopy(st, id) == [st EXCEPT !.ref = id]

\* deepcopy(email): a new Email object whose recipients field refers to a
\* new list object with the same content; st.ref is the new object
DeepCopy(st, id) ==
    LET newList == Len(st.lists) + 1
    IN [st EXCEPT !.lists = Append(@, st.lists[st.emails[id].recipients]),
                  !.emails = Append(@, [st.emails[id] EXCEPT !.recipients = newList]),
                  !.ref = Len(st.emails) + 1]

RECURSIVE SendLoop(_, _, _, _)
\* the body of send_email's for loop, for recipients[i..]; the iterator runs
\* over the list object bound to email.recipients when the loop started,
\* while email.status is read from the source object at each iteration
SendLoop(st, src, recipients, i) ==
    IF i > Len(recipients) THEN st
    ELSE LET copied == DeepCopy(st, src)
             new == copied.ref
             oneList == Len(copied.lists) + 1
             narrowed == [copied EXCEPT !.lists = Append(@, <<recipients[i]>>),
                                        !.emails[new].recipients = oneList]
             dated == [narrowed EXCEPT !.emails[new].date = Some(narrowed.clock),
                                       !.clock = @ + 1]
             resolved == [dated EXCEPT
                            !.emails[new].status = ResolveStatus(dated.emails[src].status)]
         IN SendLoop([resolved EXCEPT !.refs = Append(@, new)], src, recipients, i + 1)

\* a plausible slip: the loop misses the first recipient
SendEmailSkipFirst(st, src) ==
    SendLoop([st EXCEPT !.refs = <<>>], src, st.lists[st.emails[src].recipients], 2)

\* EmailService.send_email: the heaps and the clock after the call, and the
\* returned list of references in refs
SendEmail(st, src) ==
    SendLoop([st EXCEPT !.refs = <<>>], src, st.lists[st.emails[src].recipients], 1)

\* the variable parts of one line of send.log:
\* "<time>: FROM <from> TO <to> STATUS=<status>\n"
LogLine(time, from, to, status) ==
    [time |-> time, from |-> from, to |-> to, status |-> status]

RECURSIVE LogLoop(_, _, _, _)
\* the for loop of LoggingEmailService.send_email from results[i] on.  The
\* f-string evaluates datetime.now(), email.sender.masked (AttributeError on
\* None, ValueError from the unpacking), msg.recipients[0].masked and
\* msg.status.value in that order; an exception leaves the lines written so
\* far in the file, which the with block closes.
LogLoop(out, st, src, i) ==
    IF i > Len(st.refs) THEN out
    ELSE LET msg == st.emails[st.refs[i]]
             sender == st.emails[src].sender
             ticked == [out EXCEPT !.clock = @ + 1]
             from == Masked(sender.val)
             to == Masked(st.lists[msg.recipients][1])
         IN IF sender = None THEN [ticked EXCEPT !.raised = TRUE]
            ELSE IF from.raised \/ to.raised THEN [ticked EXCEPT !.raised = TRUE]
            ELSE LogLoop([ticked EXCEPT
                            !.log = Append(@, LogLine(out.clock, from.text, to.text,
                                                      StatusValue(msg.status)))],
                         st, src, i + 1)

\* the heaps, the clock and no references yet, as send_email finds them
Heap == [emails |-> emails, lists |-> lists, clock |-> clock, refs |-> <<>>, ref |-> 0]

\* the record of an operation on object ref
Op(op, ref, pos, raised, again) ==
    [op |-> op, ref |-> ref, pos |-> pos, raised |-> raised, again |-> again]

----------------------------------------------------------------------------
(* The inputs *)

\* arguments given to EmailAddress(...) by the caller of the mail system
RawPool ==
    { <<" ", "M", "e", "@", "m", "e", ".", "c", "o", "m", " ">>,
      <<"b", "o", "b", "@", "y", "@", "y", ".", "r", "u">>,
      <<"i", "n", "v", "a", "l", "i", "d">> }

\* the EmailAddress objects the caller obtains
AddressPool == {EmailAddress(r).value : r \in {q \in RawPool : EmailAddress(q).ok}}

Subjects == { <<>>, <<"\t", " ">>, <<" ", " ", "H", "i", " ">> }

Bodies ==
    { <<>>,
      <<" ", " ">>,
      <<" ", "T", "e", "s", "t", " ", "\t", "B", "o", "d", "y", " ", " ">>,
      Rep("x", 20),
      Rep("x", 9) \o <<" ", " ", " ">> \o Rep("y", 9),
      <<" ">> \o Rep("x", 10) \o <<" ", "\t">> \o Rep("y", 10) }

Senders == {None} \cup {Some(a) : a \in AddressPool}

----------------------------------------------------------------------------
(* The mail system: one message, prepared and sent in any order *)

NoAddress ==
    /\ raw = <<>>
    /\ addr = None
    /\ mask = None

Constructed(subject, body, sender, recipients) ==
    /\ emails = <<NewEmail(subject, body, sender, 1)>>
    /\ lists = <<recipients>>
    /\ result = [src |-> 0, refs |-> <<>>]
    /\ log = <<>>
    /\ clock = 1
    /\ last = Op("construct", 1, 0, FALSE, FALSE)
    /\ muts = 0

Init ==
    /\ NoAddress
    /\ \E subject \in Subjects, body \in Bodies, sender \in Senders :
          \/ \E a \in AddressPool :
                Constructed(subject, body, sender, PostInitAddress(a))
          \/ \E l \in SeqsUpTo(AddressPool, MaxRecipients) :
                Constructed(subject, body, sender, PostInitList(l))

\* email.prepare() on any Email object
Prepare ==
    \E id \in 1..Len(emails) :
        /\ emails' = [emails EXCEPT ![id] = PrepareEmail(@, lists[@.recipients])]
        /\ last' = Op("prepare", id, 0, FALSE, last.op = "prepare" /\ last.ref = id)
        /\ UNCHANGED <<addrVars, lists, result, log, clock, muts>>

\* EmailService().send_email(email) on any Email object
SendPlain ==
    \E id \in 1..Len(emails) :
        LET n == Len(lists[emails[id].recipients])
            sent == SendEmail(Heap, id)
        IN /\ Len(emails) + n <= MaxEmails
           /\ clock + n <= MaxClock + 1
           /\ emails' = sent.emails
           /\ lists' = sent.lists
           /\ clock' = sent.clock
           /\ result' = [src |-> id, refs |-> sent.refs]
           /\ last' = Op("send_plain", id, 0, FALSE, FALSE)
           /\ UNCHANGED <<addrVars, log, muts>>

\* LoggingEmailService().send_email(email) on any Email object.  When a log
\* line raises, the caller receives no list: the copies are unreachable and
\* are not kept on the heap.
SendLogging ==
    \E id \in 1..Len(emails) :
        LET n == Len(lists[emails[id].recipients])
            sent == SendEmail(Heap, id)
            logged == LogLoop([log |-> log, clock |-> sent.clock, raised |-> FALSE],
                              sent, id, 1)
        IN /\ Len(emails) + n <= MaxEmails
           /\ clock + n + n <= MaxClock + 1
           /\ log' = logged.log
           /\ clock' = logged.clock
           /\ last' = Op("send_logging", id, 0, logged.raised, FALSE)
           /\ IF logged.raised
              THEN UNCHANGED <<emails, lists, result>>
              ELSE /\ emails' = sent.emails
                   /\ lists' = sent.lists
                   /\ result' = [src |-> id, refs |-> sent.refs]
           /\ UNCHANGED <<addrVars, muts>>

Next ==
    \/ Prepare
    \/ SendPlain
    \/ SendLogging

Spec == Init /\ [][Next]_vars

----------------------------------------------------------------------------
(* Outcome copies mutated by their holder.  Email is a plain (unfrozen)    *)
(* dataclass: every field can be assigned, and the recipients list can be  *)
(* changed in place.                                                       *)

\* the addresses the holder has at hand
Extra == EmailAddress(<<"z", "@", "z", ".", "n", "e", "t">>).value
Other == EmailAddress(<<"Y", "o", "u", "@", "y", "o", "u", ".", "c", "o", "m">>).value

\* n recipients, neighbours different
Alternating(n) == [i \in 1..n |-> IF i % 2 = 1 THEN Other ELSE Extra]

InitMut ==
    /\ NoAddress
    /\ \E n \in 0..MaxRecipients :
          Constructed(<<" ", " ", "H", "i", " ">>,
                      <<" ", "T", "e", "s", "t", " ", "\t", "B", "o", "d", "y", " ">>,
                      Some(Extra), PostInitList(Alternating(n)))

\* some outcome copy i of the last send_email is given the fields of changed
Mutated(i, changed) ==
    /\ muts < MaxMutations
    /\ emails' = [emails EXCEPT ![result.refs[i]] = changed]
    /\ last' = Op("mutate", result.refs[i], i, FALSE, FALSE)
    /\ muts' = muts + 1
    /\ UNCHANGED <<addrVars, result, log, clock>>

\* results[i].status = Status.DRAFT
SetStatus ==
    \E i \in 1..Len(result.refs) :
        /\ Mutated(i, [emails[result.refs[i]] EXCEPT !.status = "DRAFT"])
        /\ UNCHANGED lists

\* results[i].subject = "Re"
SetSubject ==
    \E i \in 1..Len(result.refs) :
        /\ Mutated(i, [emails[result.refs[i]] EXCEPT !.subject = <<"R", "e">>])
        /\ UNCHANGED lists

\* results[i].body = ""
SetBody ==
    \E i \in 1..Len(result.refs) :
        /\ Mutated(i, [emails[result.refs[i]] EXCEPT !.body = <<>>])
        /\ UNCHANGED lists

\* results[i].date = None
SetDate ==
    \E i \in 1..Len(result.refs) :
        /\ Mutated(i, [emails[result.refs[i]] EXCEPT !.date = None])
        /\ UNCHANGED lists

\* results[i].recipients = []: the field is bound to a new list object
SetRecipients ==
    \E i \in 1..Len(result.refs) :
        /\ lists' = Append(lists, <<>>)
        /\ Mutated(i, [emails[result.refs[i]] EXCEPT !.recipients = Len(lists) + 1])

\* results[i].recipients.append(extra): the list object itself is changed
AppendRecipient ==
    \E i \in 1..Len(result.refs) :
        /\ lists' = [lists EXCEPT ![emails[result.refs[i]].recipients] = Append(@, Extra)]
        /\ Mutated(i, emails[result.refs[i]])

\* results[i].recipients.clear(): the list object itself is changed
ClearRecipients ==
    \E i \in 1..Len(result.refs) :
        /\ lists' = [lists EXCEPT ![emails[result.refs[i]].recipients] = <<>>]
        /\ Mutated(i, emails[result.refs[i]])

\* results[i].prepare()
PrepareCopy ==
    \E i \in 1..Len(result.refs) :
        /\ Mutated(i, PrepareEmail(emails[result.refs[i]],
                                   lists[emails[result.refs[i]].recipients]))
        /\ UNCHANGED lists

NextMut ==
    \/ Prepare
    \/ SendPlain
    \/ SetStatus
    \/ SetSubject
    \/ SetBody
    \/ SetDate
    \/ SetRecipients
    \/ AppendRecipient
    \/ ClearRecipients
    \/ PrepareCopy

SpecMut == InitMut /\ [][NextMut]_vars

----------------------------------------------------------------------------
(* EmailAddress on its own: construction from a raw string, then .masked *)

\* characters of the middle part of an enumerated raw address
CoreChars == {"a", "B", "@", "."}

\* ends of an enumerated raw address
Tails ==
    { <<>>, DotCom, DotRu, DotNet, <<".", "C", "O", "M">>,
      <<".", "x", "y", "z">>, <<"c", "o", "m">> }

\* whitespace around an enumerated raw address
Pads == { <<>>, <<" ">>, <<"\t", " ">> }

RawAddresses ==
    { lead \o core \o tail \o trail :
        lead \in Pads, core \in SeqsUpTo(CoreChars, MaxCoreLen),
        tail \in Tails, trail \in Pads }

NoMail ==
    /\ emails = <<>>
    /\ lists = <<>>
    /\ result = [src |-> 0, refs |-> <<>>]
    /\ log = <<>>
    /\ clock = 1
    /\ last = Op("none", 0, 0, FALSE, FALSE)
    /\ muts = 0

InitAddr ==
    /\ raw \in RawAddresses
    /\ addr = None
    /\ mask = None
    /\ NoMail

\* EmailAddress(raw)
Construct ==
    /\ addr = None
    /\ addr' = Some(EmailAddress(raw))
    /\ UNCHANGED <<raw, mask, mailVars>>

\* address.masked on the constructed object
ReadMasked ==
    /\ addr # None
    /\ addr.val.ok
    /\ mask = None
    /\ mask' = Some(Masked(addr.val.value))
    /\ UNCHANGED <<raw, addr, mailVars>>

NextAddr ==
    \/ Construct
    \/ ReadMasked

SpecAddr == InitAddr /\ [][NextAddr]_vars

----------------------------------------------------------------------------
(* Vocabulary of the properties *)

\* what a holder of the Email object id observes: its fields, with the
\* content of its recipients list
View(es, ls, id) == [es[id] EXCEPT !.recipients = ls[es[id].recipients]]

\* the string is empty once its surrounding whitespace is removed
Blank(s) == \A i \in 1..Len(s) : s[i] \in Whitespace

SendOps == {"send_plain", "send_logging"}

\* the positions of the separator in an address
AtPositions(a) == {i \in 1..Len(a) : a[i] = "@"}

\* one separator, something before it, and after it a domain with an
\* allowed suffix
WellFormed(a) ==
    /\ Cardinality(AtPositions(a)) = 1
    /\ LET p == SetMin(AtPositions(a))
       IN /\ p > 1
          /\ p < Len(a)
          /\ \E tld \in AllowedTlds : EndsWith(SubSeq(a, p + 1, Len(a)), tld)

\* at most two leading characters of the local part, "***@", the domain
ExpectedMask(a) ==
    LET p == SetMin(AtPositions(a))
        local == SubSeq(a, 1, p - 1)
    IN (IF Len(local) < 2 THEN local ELSE <<local[1], local[2]>>)
         \o <<"*", "*", "*", "@">> \o SubSeq(a, p + 1, Len(a))

----------------------------------------------------------------------------
(* The properties *)

\* C1: EmailService.send_email on a message with N recipients returns
\* exactly N outcome copies, the i-th holding exactly the i-th recipient of
\* the source, and the empty list when the source has no recipients.
C1_FanOut ==
    [][last'.op = "send_plain" =>
        LET recipients == lists[emails[last'.ref].recipients]
        IN /\ Len(result'.refs) = Len(recipients)
           /\ \A i \in 1..Len(recipients) :
                 lists'[emails'[result'.refs[i]].recipients] = <<recipients[i]>>]_vars

\* two outcome copies, for two different recipients in the source's order
C1_Witness ==
    /\ last.op = "send_plain"
    /\ Len(result.refs) = 2
    /\ lists[emails[result.refs[1]].recipients] = <<lists[emails[result.src].recipients][1]>>
    /\ lists[emails[result.refs[1]].recipients] # lists[emails[result.refs[2]].recipients]

\* C2: every outcome copy of a send_email call is SENT when the source was
\* READY at the call and FAILED for every other source status.
C2_StatusResolution ==
    [][(last'.op \in SendOps /\ ~last'.raised) =>
        \A i \in 1..Len(result'.refs) :
            emails'[result'.refs[i]].status =
                (IF emails[last'.ref].status = "READY" THEN "SENT" ELSE "FAILED")]_vars

\* an outcome copy that was SENT is sent again and yields a FAILED copy
C2_Witness ==
    /\ last.op \in SendOps
    /\ ~last.raised
    /\ result.src > 1
    /\ emails[result.src].status = "SENT"
    /\ Len(result.refs) = 1
    /\ emails[result.refs[1]].status = "FAILED"

\* C3: send_email of either service leaves every field of the source and
\* its recipients list as they were, whether or not the logging raises.
C3_SourceUnchanged ==
    [][last'.op \in SendOps =>
        View(emails', lists', last'.ref) = View(emails, lists, last'.ref)]_vars

\* a logged delivery to two recipients of a READY source
C3_Witness ==
    /\ last.op = "send_logging"
    /\ ~last.raised
    /\ Len(result.refs) = 2
    /\ emails[result.src].status = "READY"
    /\ emails[result.src].date = None

\* C4: after prepare the status is INVALID when the subject or the body is
\* empty once trimmed, the sender absent or the recipients empty, and READY
\* in every other case, whatever the status was before.
C4_PrepareStatus ==
    [][last'.op = "prepare" =>
        LET before == emails[last'.ref]
        IN emails'[last'.ref].status =
              (IF \/ Blank(before.subject)
                  \/ Blank(before.body)
                  \/ before.sender = None
                  \/ lists[before.recipients] = <<>>
               THEN "INVALID" ELSE "READY")]_vars

\* a message with subject, sender and recipients whose body trimmed to
\* nothing
C4_Witness ==
    /\ last.op = "prepare"
    /\ emails[last.ref].status = "INVALID"
    /\ emails[last.ref].subject # <<>>
    /\ emails[last.ref].body = <<>>
    /\ emails[last.ref].sender # None
    /\ lists[emails[last.ref].recipients] # <<>>

\* C5: a second prepare right after a prepare of the same message leaves
\* subject, body, short_body and status as the first left them.
C5_PrepareIdempotent ==
    [][(last.op = "prepare" /\ last'.op = "prepare" /\ last'.ref = last.ref) =>
        /\ emails'[last.ref].subject = emails[last.ref].subject
        /\ emails'[last.ref].body = emails[last.ref].body
        /\ emails'[last.ref].short_body = emails[last.ref].short_body
        /\ emails'[last.ref].status = emails[last.ref].status]_vars

\* prepared twice in a row, with a body long enough to be cut
C5_Witness ==
    /\ last.op = "prepare"
    /\ last.again
    /\ emails[last.ref].status = "READY"
    /\ Len(emails[last.ref].short_body.val) = ShortBodyLimit + 3

\* C6: an address is constructed exactly when the trimmed, lowercased input
\* has one '@' with a non-empty local part and a non-empty domain ending in
\* .com, .ru or .net, and then holds that normalized value.
C6_ValidAddress ==
    addr # None =>
        /\ addr.val.ok <=> WellFormed(Normalize(raw))
        /\ addr.val.ok => addr.val.value = Normalize(raw)

\* C7: .masked of a constructed address returns, without raising, at most
\* two leading characters of the local part, then "***@", then the domain.
C7_Masked ==
    mask # None =>
        /\ ~mask.val.raised
        /\ mask.val.text = ExpectedMask(addr.val.value)

\* the status changes of existing messages and the statuses of new ones
StatusSteps ==
    /\ \A id \in 1..Len(emails) :
          emails'[id].status # emails[id].status =>
              /\ last'.op = "prepare"
              /\ last'.ref = id
              /\ emails'[id].status \in {"READY", "INVALID"}
    /\ \A id \in (Len(emails) + 1)..Len(emails') :
          /\ last'.op \in SendOps
          /\ emails'[id].status \in {"SENT", "FAILED"}

\* C8 as amended: a message starts at DRAFT; the status of an existing
\* message changes only by prepare, to READY or INVALID, from any status;
\* delivery changes no existing status and creates copies SENT or FAILED.
C8_StatusTransitions ==
    /\ emails[1].status = "DRAFT"
    /\ [][StatusSteps]_vars

\* an outcome copy that prepare moved from SENT or FAILED to READY
C8_Witness ==
    /\ last.op = "prepare"
    /\ last.ref > 1
    /\ emails[last.ref].date # None
    /\ emails[last.ref].status = "READY"

\* C8 as stated: in addition, a message that has reached SENT or FAILED
\* never moves to another status.
C8_TerminalStatuses ==
    /\ emails[1].status = "DRAFT"
    /\ [][/\ StatusSteps
          /\ \A id \in 1..Len(emails) :
                emails[id].status \in {"SENT", "FAILED"} =>
                    emails'[id].status = emails[id].status]_vars

\* C9: for a message whose sender and recipients are constructed addresses,
\* LoggingEmailService.send_email returns what EmailService.send_email
\* returns and appends one line per outcome, in order, with the masked
\* sender, the masked recipient and the lowercase status; earlier lines stay.
C9_LoggedDelivery ==
    [][(last'.op = "send_logging" /\ emails[last'.ref].sender # None) =>
        LET src == last'.ref
            plain == SendEmail(Heap, src)
            recipients == lists[emails[src].recipients]
        IN /\ ~last'.raised
           /\ result'.refs = plain.refs
           /\ emails' = plain.emails
           /\ Len(log') = Len(log) + Len(recipients)
           /\ SubSeq(log', 1, Len(log)) = log
           /\ \A i \in 1..Len(recipients) :
                 LET line == log'[Len(log) + i]
                 IN /\ line.from = ExpectedMask(emails[src].sender.val)
                    /\ line.to = ExpectedMask(recipients[i])
                    /\ line.status = StatusValue(emails'[result'.refs[i]].status)]_vars

\* C10: a mutation of outcome copy i (a field assignment, a change of its
\* recipients list, or prepare) changes neither the source of the call nor
\* any other outcome copy of it.
C10_IndependentCopies ==
    [][(last'.op = "mutate" /\ muts' # muts) =>
        /\ View(emails', lists', result.src) = View(emails, lists, result.src)
        /\ \A j \in 1..Len(result.refs) :
              j # last'.pos =>
                  View(emails', lists', result.refs[j])
                      = View(emails, lists, result.refs[j])]_vars

\* one of two outcome copies had a recipient appended to its list in place
C10_Witness ==
    /\ last.op = "mutate"
    /\ Len(result.refs) = 2
    /\ Len(lists[emails[last.ref].recipients]) = 2
    /\ Len(lists[emails[result.src].recipients]) = 2
    /\ \E j \in 1..2 : j # last.pos /\ Len(lists[emails[result.refs[j]].recipients]) = 1

====
